---- MODULE Spec2Model ----
(***************************************************************************)
(* A model of MoESchools.py: the record normaliser, the paginated fetch,   *)
(* the roll-band extraction, the reconciliation join and the export base   *)
(* name.  Each component has its own specification (SpecProject,           *)
(* SpecFetch, SpecRoll, SpecMatch, SpecExport); a component that a         *)
(* specification does not exercise stays in its idle state.                *)
(*                                                                         *)
(* Python values are tagged records: None, strings (sequences of one-      *)
(* character strings), numbers (whole part w and tenths f), lists, dicts.  *)
(***************************************************************************)
EXTENDS Integers, Sequences, FiniteSets, TLC

VARIABLES
    \* project_record
    rec, out, pcP,
    \* fetch_all_projected_records
    limit_per_page, pc, first, total, fetched, offset, projected,
    requests, responses, ret, err,
    \* load_roll_data
    sheet, df_roll, warned, pcR,
    \* on_generate (frame building) and match_schools_with_rolls
    rows, df, df_rolls, schools_only_in_roll, schools_only_in_api,
    df_merged, pcM,
    \* on_generate (export selections), export_csv and export_excel_table
    base_name, var_csv, var_excel, table, csv_file, xlsx_file, outputs, errE, pcE

projVars   == <<rec, out, pcP>>
fetchVars  == <<limit_per_page, pc, first, total, fetched, offset, projected,
                requests, responses, ret, err>>
rollVars   == <<sheet, df_roll, warned, pcR>>
matchVars  == <<rows, df, df_rolls, schools_only_in_roll, schools_only_in_api,
                df_merged, pcM>>
exportVars == <<base_name, var_csv, var_excel, table, csv_file, xlsx_file,
                outputs, errE, pcE>>
vars == <<projVars, fetchVars, rollVars, matchVars, exportVars>>

----------------------------------------------------------------------------
\* Bounds of the model.
MaxKeys  == 3   \* keys a raw record may carry (drawn from KeyPool)
MaxLimit == 2   \* largest limit_per_page
MaxTotal == 3   \* largest total the source reports
MaxCols  == 3   \* columns of an enumerated sheet
MaxSheetRows == 2   \* data rows of a sheet
MaxRows  == 3   \* records fetched into the registry table
MaxRollRows == 2   \* rows of an enumerated roll table
MaxName  == 3   \* characters of an enumerated base name

----------------------------------------------------------------------------
\* Python values.
None     == [t |-> "null"]
Str(s)   == [t |-> "str", s |-> s]
Num(w,f) == [t |-> "num", w |-> w, f |-> f]
Bool(b)  == [t |-> "bool", b |-> b]
List(xs) == [t |-> "list", items |-> xs]
Dict(d)  == [t |-> "dict", d |-> d]

\* str.strip(): leading and trailing whitespace removed.
Whitespace == {" ", "\t", "\n"}

RECURSIVE lstrip(_)
lstrip(s) == IF s # <<>> /\ Head(s) \in Whitespace THEN lstrip(Tail(s)) ELSE s

RECURSIVE rstrip(_)
rstrip(s) == IF s # <<>> /\ s[Len(s)] \in Whitespace
             THEN rstrip(SubSeq(s, 1, Len(s) - 1)) ELSE s

strip(s) == rstrip(lstrip(s))

\* len(val) of a list or a dict.
len(val) == IF val.t = "list" THEN Len(val.items) ELSE Cardinality(DOMAIN val.d)

\* The two field names spelt with a macron in the source are written here
\* with a plain a.
FIELDS == <<
    "School_Id","Org_Name","Telephone","Fax","Email","Contact1_Name","URL",
    "Add1_Line1","Add1_Suburb","Add1_City","Add2_Line1","Add2_Suburb",
    "Add2_City","Add2_Postal_Code","Authority","Territorial_Authority",
    "Regional_Council","General_Electorate","Maori_Electorate","Ward",
    "Latitude","Longitude","EQi_Index","Roll_Date","Total","European",
    "Maori","Pacific","Asian","MELAA","Other","International","Status",
    "DateSchoolOpened" >>

Placeholder == Str(<<"-">>)

\* A variant of normalize_value that lets an empty list or dict through.
normalize_value_keeps_empty(val) ==
    IF val = None THEN Placeholder
    ELSE IF val.t = "str"
         THEN LET s == strip(val.s) IN IF s # <<>> THEN Str(s) ELSE Placeholder
         ELSE val

normalize_value(val) ==
    IF val = None THEN Placeholder
    ELSE IF val.t = "str"
         THEN LET s == strip(val.s) IN IF s # <<>> THEN Str(s) ELSE Placeholder
    ELSE IF val.t \in {"list", "dict"}
         THEN IF len(val) = 0 THEN Placeholder ELSE val
    ELSE val

\* rec.get(f, None): a raw record is a function from its keys to values.
get(r, f) == IF f \in DOMAIN r THEN r[f] ELSE None

\* The dict comprehension keeps insertion order: a sequence of <<key, value>>.
project_record(r) ==
    [i \in 1..Len(FIELDS) |-> <<FIELDS[i], normalize_value(get(r, FIELDS[i]))>>]

----------------------------------------------------------------------------
\* Idle states of the components.
Idle == "idle"

ProjIdle == rec = << >> /\ out = << >> /\ pcP = Idle

FetchIdle ==
    /\ limit_per_page = 1 /\ pc = Idle /\ first = None /\ total = None
    /\ fetched = 0 /\ offset = 0 /\ projected = << >>
    /\ requests = << >> /\ responses = << >> /\ ret = None /\ err = "none"

RollIdle ==
    /\ sheet = None /\ df_roll = None
    /\ warned = FALSE /\ pcR = Idle

MatchIdle ==
    /\ rows = << >> /\ df = None /\ df_rolls = None
    /\ schools_only_in_roll = {} /\ schools_only_in_api = {}
    /\ df_merged = None /\ pcM = Idle

ExportIdle ==
    /\ base_name = << >> /\ var_csv = FALSE /\ var_excel = FALSE /\ table = None
    /\ csv_file = None /\ xlsx_file = None /\ outputs = << >>
    /\ errE = "none" /\ pcE = Idle

----------------------------------------------------------------------------
\* project_record on every raw record over KeyPool and ValuePool.
KeyPool == {"School_Id", "Org_Name", "DateSchoolOpened", "_id", "rank"}

ValuePool == {
    None, Str(<<>>), Str(<<" ", "\t">>), Str(<<" ", "a", " ">>),
    Str(<<"a", " ", "b">>), Num(0, 0), Bool(FALSE),
    List(<<>>), List(<<None>>), Dict(<< >>), Dict([k \in {"x"} |-> None]) }

RawRecords ==
    UNION { [ks -> ValuePool] : ks \in {k \in SUBSET KeyPool : Cardinality(k) <= MaxKeys} }

InitProject ==
    /\ rec \in RawRecords /\ out = << >> /\ pcP = "call"
    /\ FetchIdle /\ RollIdle /\ MatchIdle /\ ExportIdle

Project ==
    /\ pcP = "call"
    /\ out' = project_record(rec)
    /\ pcP' = "done"
    /\ UNCHANGED <<rec, fetchVars, rollVars, matchVars, exportVars>>

NextProject == Project

SpecProject == InitProject /\ [][NextProject]_vars

\* C3: for every raw record, project_record returns exactly the 34 FIELDS keys
\* in FIELDS order; a missing, null, empty or whitespace-only string, or empty
\* list/dict value becomes the placeholder "-", no such value is left in the
\* result, and every other value passes through unchanged (strings trimmed).
IsBlank(v) ==
    \/ v = None
    \/ v.t = "str"  /\ \A i \in 1..Len(v.s) : v.s[i] \in Whitespace
    \/ v.t = "list" /\ v.items = << >>
    \/ v.t = "dict" /\ DOMAIN v.d = {}

IsTrimOf(s, raw) ==
    \E i, j \in 1..Len(raw) :
        /\ i <= j /\ s = SubSeq(raw, i, j)
        /\ raw[i] \notin Whitespace /\ raw[j] \notin Whitespace
        /\ \A k \in 1..Len(raw) : (k < i \/ k > j) => raw[k] \in Whitespace

C3_ProjectionIsTotalAndBlankFree ==
    pcP = "done" =>
        /\ Len(out) = 34 /\ Len(FIELDS) = 34
        /\ \A i \in 1..Len(out) :
            LET raw == get(rec, FIELDS[i])
                v   == out[i][2]
            IN /\ out[i][1] = FIELDS[i]
               /\ ~IsBlank(v)
               /\ IsBlank(raw) => v = Placeholder
               /\ ~IsBlank(raw) =>
                    IF raw.t = "str" THEN v.t = "str" /\ IsTrimOf(v.s, raw.s)
                    ELSE v = raw

C3_Witness ==
    /\ pcP = "done"
    /\ DOMAIN rec = {"Org_Name", "DateSchoolOpened", "_id"}
    /\ rec["Org_Name"] = Str(<<" ", "\t">>)
    /\ rec["DateSchoolOpened"] = List(<< >>)
    /\ out[2] = <<"Org_Name", Placeholder>>
    /\ out[1] = <<"School_Id", Placeholder>>

----------------------------------------------------------------------------
\* fetch_all_projected_records against a remote source that answers each
\* request with a response {success, result: {total, records_total, records}}
\* or with a transport failure.  requests and responses are the calls of
\* session.get and what they returned, in order; the pause between pages
\* changes no state and is left out.

\* Python truthiness, as `not x` and `x or y` use it.
Truthy(v) ==
    CASE v.t = "null" -> FALSE
      [] v.t = "bool" -> v.b
      [] v.t = "num"  -> ~(v.w = 0 /\ v.f = 0)
      [] v.t = "str"  -> v.s # << >>
      [] v.t = "list" -> v.items # << >>
      [] v.t = "dict" -> DOMAIN v.d # {}

Or(a, b) == IF Truthy(a) THEN a ELSE b

PyInt(n) == Num(n, 0)

\* The raw records the source serves.
RawA == [k \in {"School_Id", "Org_Name", "_id"} |->
            CASE k = "School_Id" -> PyInt(1)
              [] k = "Org_Name"  -> Str(<<" ", "a", " ">>)
              [] k = "_id"       -> PyInt(7)]
RawB == [k \in {"School_Id", "Status"} |->
            CASE k = "School_Id" -> Str(<<"2">>)
              [] k = "Status"    -> List(<< >>)]
RawPool == {RawA, RawB}

RECURSIVE SeqsUpTo(_, _)
SeqsUpTo(S, n) ==
    IF n = 0 THEN {<< >>}
    ELSE LET shorter == SeqsUpTo(S, n - 1)
         IN shorter \cup {Append(q, x) : q \in {r \in shorter : Len(r) = n - 1}, x \in S}

\* The source honours the limit: a page carries 0..limit records.
Pages(limit) == SeqsUpTo(RawPool, limit)

Response(success, tot, rtot, records) ==
    [success |-> success, total |-> tot, records_total |-> rtot, records |-> records]

ReportedTotals      == {None} \cup {PyInt(n) : n \in 0..MaxTotal}
ReportedRecordsTotals == {None, PyInt(MaxTotal)}

FailureResponses == {Response(f, None, None, << >>) : f \in {Bool(FALSE), None}}

FirstResponses(limit) ==
    FailureResponses \cup
    {Response(Bool(TRUE), t, rt, p) :
        t \in ReportedTotals, rt \in ReportedRecordsTotals, p \in Pages(limit)}

LaterResponses(limit) ==
    FailureResponses \cup {Response(Bool(TRUE), None, None, p) : p \in Pages(limit)}

\* `if not page.get("success")` read as `if page.get("success") is False`.
succeeded_unless_false(page) == page.success # Bool(FALSE)

succeeded(page) == Truthy(page.success)

\* projected.extend(...) written so that the new page goes in front.
extend_in_front(acc, page_records) ==
    [i \in 1..Len(page_records) |-> project_record(page_records[i])] \o acc

\* projected.extend(project_record(r) for r in page_records)
extend(acc, page_records) ==
    acc \o [i \in 1..Len(page_records) |-> project_record(page_records[i])]

InitFetch ==
    /\ limit_per_page \in 1..MaxLimit
    /\ pc = "first" /\ first = None /\ total = None
    /\ fetched = 0 /\ offset = 0 /\ projected = << >>
    /\ requests = << >> /\ responses = << >> /\ ret = None /\ err = "none"
    /\ ProjIdle /\ RollIdle /\ MatchIdle /\ ExportIdle

\* fetch_page raises (raise_for_status, connection error, timeout).
TransportFailure ==
    /\ pc \in {"first", "loop"}
    /\ pc = "loop" => fetched < total.w
    /\ requests' = Append(requests, offset)
    /\ pc' = "raised" /\ err' = "TransportError"
    /\ UNCHANGED <<limit_per_page, first, total, fetched, offset, projected,
                   responses, ret>>
    /\ UNCHANGED <<projVars, rollVars, matchVars, exportVars>>

\* Lines 142-160: the first request and what is read from its response.
FetchFirst ==
    /\ pc = "first"
    /\ \E resp \in FirstResponses(limit_per_page) :
        /\ requests' = Append(requests, 0)
        /\ responses' = Append(responses, resp)
        /\ IF ~succeeded(resp)
           THEN /\ pc' = "raised" /\ err' = "RuntimeError"
                /\ UNCHANGED <<first, total, fetched, offset, projected>>
           ELSE LET tot == Or(resp.total, resp.records_total)
                IN /\ first' = resp
                   /\ projected' = extend(<< >>, resp.records)
                   /\ total' = IF tot = None THEN PyInt(Len(resp.records)) ELSE tot
                   /\ fetched' = Len(resp.records)
                   /\ offset' = Len(resp.records)
                   /\ pc' = "loop" /\ err' = err
    /\ UNCHANGED <<limit_per_page, ret>>
    /\ UNCHANGED <<projVars, rollVars, matchVars, exportVars>>

\* The counters left where they were after a page of records.
advance_stuck(n, page_records) == n

\* The counters moved by the page size asked for, not by the records received.
advance_by_limit(n, page_records) == n + limit_per_page

\* Lines 175-176: fetched += len(page_records); offset += len(page_records)
advance(n, page_records) == n + Len(page_records)

\* Lines 162-177: one iteration of the while loop; an empty page breaks out
\* of the loop and the function returns what it has.
FetchNext ==
    /\ pc = "loop" /\ fetched < total.w
    /\ \E page \in LaterResponses(limit_per_page) :
        /\ requests' = Append(requests, offset)
        /\ responses' = Append(responses, page)
        /\ IF ~succeeded(page)
           THEN /\ pc' = "raised" /\ err' = "RuntimeError"
                /\ UNCHANGED <<fetched, offset, projected, ret>>
           ELSE IF page.records = << >>
           THEN /\ pc' = "done" /\ ret' = List(projected)
                /\ UNCHANGED <<fetched, offset, projected, err>>
           ELSE /\ projected' = extend(projected, page.records)
                /\ fetched' = advance(fetched, page.records)
                /\ offset' = advance(offset, page.records)
                /\ UNCHANGED <<pc, ret, err>>
    /\ UNCHANGED <<limit_per_page, first, total>>
    /\ UNCHANGED <<projVars, rollVars, matchVars, exportVars>>

\* Lines 162, 179-180: the loop condition fails and the function returns.
FetchReturn ==
    /\ pc = "loop" /\ ~(fetched < total.w)
    /\ pc' = "done" /\ ret' = List(projected)
    /\ UNCHANGED <<limit_per_page, first, total, fetched, offset, projected,
                   requests, responses, err>>
    /\ UNCHANGED <<projVars, rollVars, matchVars, exportVars>>

NextFetch == FetchFirst \/ FetchNext \/ FetchReturn \/ TransportFailure

SpecFetch == InitFetch /\ [][NextFetch]_vars

\* What the responses of a session say, independently of the function's locals.
RECURSIVE SumSizes(_)
SumSizes(rs) == IF rs = << >> THEN 0 ELSE Len(Head(rs).records) + SumSizes(Tail(rs))

RECURSIVE InPageOrder(_)
InPageOrder(rs) ==
    IF rs = << >> THEN << >>
    ELSE [i \in 1..Len(Head(rs).records) |-> project_record(Head(rs).records[i])]
         \o InPageOrder(Tail(rs))

Ceil(a, b) == (a + b - 1) \div b

\* The session has returned, the source reported total = T on the first page
\* and the pages it returned carry T records altogether.
ConsistentSession ==
    /\ pc = "done"
    /\ first.total # None
    /\ SumSizes(responses) = first.total.w

AllButLastPageFull ==
    \A i \in 1..(Len(responses) - 1) : Len(responses[i].records) = limit_per_page

\* C1 (as stated): total = T and pages summing to T give exactly T normalized
\* records in page-then-within-page order after exactly ceil(T / limit_per_page)
\* page requests.
C1_Original ==
    ConsistentSession =>
        /\ ret.items = InPageOrder(responses)
        /\ Len(ret.items) = first.total.w
        /\ Len(requests) = Ceil(first.total.w, limit_per_page)

\* C1 (amended): total = T and pages summing to T give exactly T normalized
\* records in page-then-within-page order, after one request per page returned
\* (at least one); that is ceil(T / limit_per_page) requests when T >= 1 and
\* every page but the last carries limit_per_page records.
C1_RecordsAndRequests ==
    ConsistentSession =>
        /\ ret.items = InPageOrder(responses)
        /\ Len(ret.items) = first.total.w
        /\ Len(requests) = Len(responses) /\ Len(requests) >= 1
        /\ (first.total.w >= 1 /\ AllButLastPageFull) =>
                Len(requests) = Ceil(first.total.w, limit_per_page)

C1_Witness ==
    /\ ConsistentSession
    /\ limit_per_page = 2 /\ first.total = PyInt(3)
    /\ Len(requests) = 2
    /\ responses[1].records = <<RawA, RawB>> /\ responses[2].records = <<RawA>>
    /\ Len(ret.items) = 3

\* C2: a page response whose success flag is absent or false, first or later,
\* ends the fetch with an error: it is the last response of the session, no
\* request follows it, and nothing is returned.
C2_FailureReturnsNothing ==
    \A i \in 1..Len(responses) :
        responses[i].success \in {None, Bool(FALSE)} =>
            /\ pc = "raised" /\ err = "RuntimeError"
            /\ ret = None
            /\ i = Len(responses) /\ Len(requests) = Len(responses)

C2_Witness ==
    /\ pc = "raised"
    /\ Len(responses) = 3
    /\ responses[3].success = None
    /\ Len(projected) = 2
    /\ ret = None

----------------------------------------------------------------------------
\* load_roll_data on a workbook sheet.  A DataFrame is [columns, data]: the
\* column names and the rows, each a sequence of cells aligned with the
\* columns.  A blank cell is NaN.  chars(name) spells a column name out as
\* its characters, for the code that looks inside the names.
NaN == [t |-> "nan"]
Raise == [t |-> "raise"]
Frame(columns, data) == [columns |-> columns, data |-> data]

LowerChars == <<"a","b","c","d","e","f","g","h","i","j","k","l","m",
                "n","o","p","q","r","s","t","u","v","w","x","y","z">>
UpperChars == <<"A","B","C","D","E","F","G","H","I","J","K","L","M",
                "N","O","P","Q","R","S","T","U","V","W","X","Y","Z">>
DigitChars == <<"0","1","2","3","4","5","6","7","8","9">>

isalpha(c) == \E i \in 1..26 : c = LowerChars[i] \/ c = UpperChars[i]
upper_char(c) ==
    IF \E i \in 1..26 : c = LowerChars[i]
    THEN UpperChars[CHOOSE i \in 1..26 : c = LowerChars[i]] ELSE c
lower_char(c) ==
    IF \E i \in 1..26 : c = UpperChars[i]
    THEN LowerChars[CHOOSE i \in 1..26 : c = UpperChars[i]] ELSE c
upper(s) == [i \in 1..Len(s) |-> upper_char(s[i])]
lower(s) == [i \in 1..Len(s) |-> lower_char(s[i])]

\* `sub in s` for strings.
contains(s, sub) ==
    \E i \in 0..(Len(s) - Len(sub)) : SubSeq(s, i + 1, i + Len(sub)) = sub

RECURSIVE filter_alpha(_)
filter_alpha(s) ==
    IF s = << >> THEN << >>
    ELSE (IF isalpha(Head(s)) THEN <<Head(s)>> ELSE << >>) \o filter_alpha(Tail(s))

H_SchoolID == "SchoolID"
H_AX  == "AX"
H_AY  == "AY"
H_AY1 == "AY.1"
H_AZ  == "AZ"
H_BM  == "BM"
H_bm2 == "bm 2"
H_BN  == "BN"
SCHOOL_ID == "School_Id"

\* str(col), character by character.
chars(col) ==
    CASE col = "SchoolID"  -> <<"S","c","h","o","o","l","I","D">>
      [] col = "School_Id" -> <<"S","c","h","o","o","l","_","I","d">>
      [] col = "AX"   -> <<"A","X">>
      [] col = "AY"   -> <<"A","Y">>
      [] col = "AY.1" -> <<"A","Y",".","1">>
      [] col = "AZ"   -> <<"A","Z">>
      [] col = "BM"   -> <<"B","M">>
      [] col = "bm 2" -> <<"b","m"," ","2">>
      [] col = "BN"   -> <<"B","N">>

\* Line 231: ''.join([c for c in str(col) if c.isalpha()])
col_letter(col) == filter_alpha(chars(col))

ROLL_DATA_START_COLUMN == "AY"
ROLL_DATA_END_COLUMN   == "BM"

\* Lines 209-217: the first column naming both 'school' and 'id', else the
\* first column unless the frame is empty (no columns or no rows); 0 is None.
is_school_id_name(col) ==
    /\ contains(lower(chars(col)), <<"s","c","h","o","o","l">>)
    /\ contains(lower(chars(col)), <<"i","d">>)

find_school_id_col(d) ==
    LET named == {i \in 1..Len(d.columns) : is_school_id_name(d.columns[i])}
        empty == d.columns = << >> \/ d.data = << >>
    IN IF named # {} THEN CHOOSE i \in named : \A j \in named : i <= j
       ELSE IF ~empty THEN 1 ELSE 0

\* The loop of lines 230-235 with a break at the first match.
first_index_of_label(all_cols, label) ==
    LET hits == {i \in 1..Len(all_cols) : upper(col_letter(all_cols[i])) = upper(chars(label))}
    IN IF hits = {} THEN 0 ELSE CHOOSE i \in hits : \A j \in hits : i <= j

\* Lines 230-235: the loop does not stop at a match, so the index left in
\* start_idx / end_idx is that of the last column with the label; 0 is None.
index_of_label(all_cols, label) ==
    LET hits == {i \in 1..Len(all_cols) : upper(col_letter(all_cols[i])) = upper(chars(label))}
    IN IF hits = {} THEN 0 ELSE CHOOSE i \in hits : \A j \in hits : i >= j

\* Lines 223-242: the indexes of the sheet columns to extract, identifier first.
cols_to_extract(d, school_id_col) ==
    LET start_idx == index_of_label(d.columns, ROLL_DATA_START_COLUMN)
        end_idx   == index_of_label(d.columns, ROLL_DATA_END_COLUMN)
    IN IF start_idx # 0 /\ end_idx # 0
       THEN <<school_id_col>> \o [k \in 1..(IF end_idx >= start_idx THEN end_idx - start_idx + 1 ELSE 0)
                                    |-> start_idx + k - 1]
       ELSE <<school_id_col>>

band_found(d) ==
    /\ index_of_label(d.columns, ROLL_DATA_START_COLUMN) # 0
    /\ index_of_label(d.columns, ROLL_DATA_END_COLUMN) # 0

\* int() of a string of digits.
RECURSIVE parse_digits(_)
parse_digits(s) ==
    IF s = << >> THEN 0
    ELSE 10 * parse_digits(SubSeq(s, 1, Len(s) - 1))
         + (CHOOSE i \in 1..10 : DigitChars[i] = s[Len(s)]) - 1

\* pd.to_numeric(..., errors='coerce') on one cell: numbers stay, strings of
\* digits (surrounding whitespace allowed) parse, anything else becomes NaN.
to_numeric(cell) ==
    CASE cell.t = "num" -> cell
      [] cell.t = "str" ->
            LET s == strip(cell.s)
            IN IF s # << >> /\ \A i \in 1..Len(s) : \E k \in 1..10 : DigitChars[k] = s[i]
               THEN Num(parse_digits(s), 0) ELSE NaN
      [] OTHER -> NaN

\* .astype(int) without the cast: the fractional part stays.
astype_keeps_fraction(cell) == cell

\* .astype(int) on a finite non-negative number: the fractional part goes.
astype_int(cell) == Num(cell.w, 0)

\* df_roll.dropna(subset=['School_Id']): School_Id is the first column.
RECURSIVE dropna(_)
dropna(data) ==
    IF data = << >> THEN << >>
    ELSE (IF Head(data)[1] # NaN THEN <<Head(data)>> ELSE << >>) \o dropna(Tail(data))

Count(seq, x) == Cardinality({i \in 1..Len(seq) : seq[i] = x})

\* Lines 245-258 on the extracted columns `cols` (indexes into the sheet).
\* The result is a frame, or Raise when df_roll['School_Id'] is not a
\* single column (the renamed selection carries the name twice).
roll_frame(d, school_id_col, cols) ==
    LET names   == [k \in 1..Len(cols) |->
                        IF cols[k] = school_id_col THEN SCHOOL_ID ELSE d.columns[cols[k]]]
        picked  == [r \in 1..Len(d.data) |-> [k \in 1..Len(cols) |-> d.data[r][cols[k]]]]
        numeric == [r \in 1..Len(picked) |-> [picked[r] EXCEPT ![1] = to_numeric(@)]]
        kept    == dropna(numeric)
    IN IF Count(names, SCHOOL_ID) # 1 THEN Raise
       ELSE Frame(names, [r \in 1..Len(kept) |-> [kept[r] EXCEPT ![1] = astype_int(@)]])

\* Sheets: enumerated header rows over HeaderPool, the header row of the
\* documented example, and rows whose cells all hold the row's value.
HeaderPool == {H_SchoolID, H_AY, H_AY1, H_BM, H_bm2}
ExampleHeaders == <<H_SchoolID, H_AX, H_AY, H_AZ, H_BM, H_BN>>

CellPool == {Num(2, 5), Str(<<"x">>), Str(<<"1", "2">>), NaN}

Distinct(seq) == \A i, j \in 1..Len(seq) : i # j => seq[i] # seq[j]

HeaderRows == {h \in SeqsUpTo(HeaderPool, MaxCols) : Distinct(h)} \cup {ExampleHeaders}

Sheets ==
    {Frame(h, [r \in 1..Len(vs) |-> [c \in 1..Len(h) |-> vs[r]]]) :
        h \in HeaderRows \ {<< >>}, vs \in SeqsUpTo(CellPool, MaxSheetRows)}
    \cup {Frame(<< >>, << >>)}

\* sheet = None: the workbook has no sheet named str(selected_year).
InitRoll ==
    /\ sheet \in Sheets \cup {None}
    /\ df_roll = None /\ warned = FALSE /\ pcR = "call"
    /\ ProjIdle /\ FetchIdle /\ MatchIdle /\ ExportIdle

\* Lines 199-261: the whole of load_roll_data; every exception leaves as
\* RuntimeError.
LoadRoll ==
    /\ pcR = "call"
    /\ IF sheet = None
       THEN pcR' = "raised" /\ UNCHANGED <<df_roll, warned>>
       ELSE LET school_id_col == find_school_id_col(sheet)
                cols   == cols_to_extract(sheet, school_id_col)
                result == roll_frame(sheet, school_id_col, cols)
            IN /\ warned' = ~band_found(sheet)
               /\ IF school_id_col = 0 \/ result = Raise
                  THEN pcR' = "raised" /\ UNCHANGED df_roll
                  ELSE pcR' = "done" /\ df_roll' = result
    /\ UNCHANGED sheet
    /\ UNCHANGED <<projVars, fetchVars, matchVars, exportVars>>

NextRoll == LoadRoll

SpecRoll == InitRoll /\ [][NextRoll]_vars

\* What a sheet's header row says, independently of the function's locals.
LabelHits(cols, label) == {i \in 1..Len(cols) : upper(col_letter(cols[i])) = upper(chars(label))}
MinOf(S) == CHOOSE i \in S : \A j \in S : i <= j
MaxOf(S) == CHOOSE i \in S : \A j \in S : i >= j
StartHits == LabelHits(sheet.columns, ROLL_DATA_START_COLUMN)
EndHits   == LabelHits(sheet.columns, ROLL_DATA_END_COLUMN)
BothLabelsOccur == StartHits # {} /\ EndHits # {}

\* The identifier column of the sheet: the first header naming 'school' and
\* 'id', else the first column of a sheet that has data rows, else none (0).
IdColumn ==
    LET named == {i \in 1..Len(sheet.columns) : is_school_id_name(sheet.columns[i])}
    IN IF named # {} THEN MinOf(named)
       ELSE IF sheet.columns # << >> /\ sheet.data # << >> THEN 1 ELSE 0

Loaded == pcR # "call" /\ sheet # None

\* C8 (as stated): when both band labels occur, the result's columns are the
\* identifier column (as School_Id) followed by the columns from the first
\* occurrence of the start label to the first occurrence of the end label
\* (read here of the loads that return a table).
C8_Original ==
    (Loaded /\ BothLabelsOccur /\ pcR = "done") =>
        df_roll.columns =
              <<SCHOOL_ID>> \o SubSeq(sheet.columns, MinOf(StartHits), MinOf(EndHits))

\* C8 (amended): when both band labels occur, the band runs from the last
\* occurrence of the start label to the last occurrence of the end label
\* (empty when the start lies after the end); the load raises when no
\* identifier column can be determined or the identifier column lies inside
\* the band, and otherwise returns School_Id followed by the band's columns
\* in sheet order.
C8_BandFromLastOccurrences ==
    (Loaded /\ BothLabelsOccur) =>
        LET a == MaxOf(StartHits)
            b == MaxOf(EndHits)
        IN IF IdColumn = 0 \/ (a <= IdColumn /\ IdColumn <= b)
           THEN pcR = "raised"
           ELSE /\ pcR = "done"
                /\ df_roll.columns = <<SCHOOL_ID>> \o SubSeq(sheet.columns, a, b)
                /\ \A r \in 1..Len(df_roll.data) : Len(df_roll.data[r]) = Len(df_roll.columns)

C8_Witness ==
    /\ pcR = "done"
    /\ sheet.columns = <<H_AY, H_AY1, H_bm2>>
    /\ Len(sheet.data) = 2
    /\ df_roll.columns = <<SCHOOL_ID, H_AY1, H_bm2>>

C8_ExampleWitness ==
    /\ pcR = "done"
    /\ sheet.columns = ExampleHeaders
    /\ df_roll.columns = <<SCHOOL_ID, H_AY, H_AZ, H_BM>>

\* The identifier cells of the sheet, and those that are numbers.
IdCells == [r \in 1..Len(sheet.data) |-> sheet.data[r][IdColumn]]
IsNumeric(cell) ==
    \/ cell.t = "num"
    \/ cell.t = "str" /\ cell.s # << >>
         /\ \A i \in 1..Len(cell.s) : \E k \in 1..10 : DigitChars[k] = cell.s[i]
NumericValue(cell) == IF cell.t = "num" THEN cell ELSE Num(parse_digits(cell.s), 0)

RECURSIVE NumericOnes(_)
NumericOnes(cells) ==
    IF cells = << >> THEN << >>
    ELSE (IF IsNumeric(Head(cells)) THEN <<NumericValue(Head(cells))>> ELSE << >>)
         \o NumericOnes(Tail(cells))

RollIds == [r \in 1..Len(df_roll.data) |-> df_roll.data[r][1]]
IsInteger(cell) == cell.t = "num" /\ cell.f = 0

\* C9 (as stated): every returned row has an integer School_Id; rows with a
\* blank or non-numeric identifier are dropped, and every row with a numeric
\* identifier is kept with that same identifier value.
C9_Original ==
    pcR = "done" =>
        /\ df_roll.columns[1] = SCHOOL_ID
        /\ \A r \in 1..Len(RollIds) : IsInteger(RollIds[r])
        /\ RollIds = NumericOnes(IdCells)

\* C9 (amended): every returned row has an integer School_Id; rows with a
\* blank or non-numeric identifier are dropped, and every row with a numeric
\* identifier is kept, in sheet order, with the identifier's integer part
\* (the same value when the identifier is a whole number).
C9_NumericIdsKeptAsIntegers ==
    pcR = "done" =>
        /\ df_roll.columns[1] = SCHOOL_ID
        /\ \A r \in 1..Len(RollIds) : IsInteger(RollIds[r])
        /\ LET numeric == NumericOnes(IdCells)
           IN RollIds = [r \in 1..Len(numeric) |-> Num(numeric[r].w, 0)]

C9_Witness ==
    /\ pcR = "done"
    /\ sheet.columns = <<H_SchoolID, H_AY, H_BM>>
    /\ IdCells = <<NaN, Str(<<"1", "2">>)>>
    /\ RollIds = <<Num(12, 0)>>

C9_FractionWitness ==
    /\ pcR = "done"
    /\ IdCells = <<Str(<<"x">>), Num(2, 5)>>
    /\ RollIds = <<Num(2, 0)>>

\* C10: when the start label or the end label is missing from the column
\* labels of a sheet that has columns, load_roll_data does not fail: it warns and returns a table
\* holding the identifier column alone.
C10_MissingBandDegrades ==
    (Loaded /\ sheet.columns # << >> /\ ~BothLabelsOccur) =>
        /\ pcR = "done" /\ warned
        /\ df_roll.columns = <<SCHOOL_ID>>

----------------------------------------------------------------------------
\* on_generate, lines 607-624: the fetched rows become the registry frame,
\* sorted by School_Id, which match_schools_with_rolls joins with the roll
\* table of load_roll_data.

ColIndex(d, name) == CHOOSE i \in 1..Len(d.columns) : d.columns[i] = name

\* The raw records behind the fetched rows: an identifier (absent for None)
\* and a name that tells the rows apart.
RegistryIdPool == {PyInt(1), Str(<<"2">>), None}
NameOf(k) == Str(<<"s", DigitChars[k + 1]>>)
RawSchool(id, k) ==
    [f \in {"School_Id", "Org_Name"} |-> IF f = "School_Id" THEN id ELSE NameOf(k)]

FetchedRows(ids) == [k \in 1..Len(ids) |-> project_record(RawSchool(ids[k], k))]

\* A roll table as load_roll_data returns it for headers [SchoolID, AY, BM]:
\* integer School_Id, then the band; the band cells tell the rows apart.
RollIdPool == {2, 3}
RollTable(ids) ==
    Frame(<<SCHOOL_ID, H_AY, H_BM>>,
          [k \in 1..Len(ids) |-> <<PyInt(ids[k]), PyInt(10 * k), PyInt(10 * k + 1)>>])

\* The documented scenario: registry {1, 2, 3} and roll table {2, 3, 4}.
ExampleRows  == FetchedRows(<<PyInt(3), PyInt(1), PyInt(2)>>)
ExampleRolls == RollTable(<<4, 3, 2>>)

\* Line 607: pd.DataFrame(rows, columns=FIELDS)
DataFrame(rs) == Frame(FIELDS, [r \in 1..Len(rs) |-> [i \in 1..Len(FIELDS) |-> rs[r][i][2]]])

\* Line 613: pd.to_numeric(df[col], errors='coerce').fillna(df[col])
coerce_or_keep(cell) == IF to_numeric(cell) # NaN THEN to_numeric(cell) ELSE cell

\* Line 616: the sort key, NaN last.
KeyLe(a, b) == b = NaN \/ (a # NaN /\ 10 * a.w + a.f <= 10 * b.w + b.f)

Orderings(n) == {p \in [1..n -> 1..n] : \A i, j \in 1..n : i # j => p[i] # p[j]}

\* Line 616: sort_values with the default kind (quicksort) does not promise
\* an order among equal keys: every ordering of the rows by key is possible.
SortedFrames(d) ==
    LET id == ColIndex(d, "School_Id")
        n  == Len(d.data)
    IN {Frame(d.columns, [r \in 1..n |-> d.data[p[r]]]) :
           p \in {q \in Orderings(n) :
                    \A i, j \in 1..n : i < j =>
                        KeyLe(to_numeric(d.data[q[i]][id]), to_numeric(d.data[q[j]][id]))}}

\* Lines 271-272: .astype(int) of an identifier column raises on a value that
\* is no number; otherwise the set of the integers.
can_astype_int(d) ==
    \A r \in 1..Len(d.data) : to_numeric(d.data[r][ColIndex(d, SCHOOL_ID)]) # NaN

id_set(d) == {astype_int(to_numeric(d.data[r][ColIndex(d, SCHOOL_ID)])).w : r \in 1..Len(d.data)}

\* Lines 274-275 with the operands of the two differences exchanged.
only_in_swapped(a, b) == b \ a

\* Lines 274-275: a - b
only_in(a, b) == a \ b

\* The cells of a row without the one at index k.
Without(row, k) == SubSeq(row, 1, k - 1) \o SubSeq(row, k + 1, Len(row))

\* The rows of `right`, from row j on, whose key equals `key`, without the key.
RECURSIVE matches_from(_, _, _)
matches_from(right, key, j) ==
    IF j > Len(right.data) THEN << >>
    ELSE LET k == ColIndex(right, SCHOOL_ID)
         IN (IF right.data[j][k] = key THEN <<Without(right.data[j], k)>> ELSE << >>)
            \o matches_from(right, key, j + 1)

RECURSIVE left_rows_from(_, _, _)
left_rows_from(left, right, r) ==
    IF r > Len(left.data) THEN << >>
    ELSE LET row   == left.data[r]
             found == matches_from(right, row[ColIndex(left, SCHOOL_ID)], 1)
             blank == [c \in 1..(Len(right.columns) - 1) |-> NaN]
         IN (IF found = << >> THEN <<row \o blank>>
             ELSE [m \in 1..Len(found) |-> row \o found[m]])
            \o left_rows_from(left, right, r + 1)

\* A join that walks the roll table and attaches the registry row to each of
\* its rows (the order of a right join), then the unmatched registry rows.
RECURSIVE right_rows_from(_, _, _)
right_rows_from(left, right, j) ==
    IF j > Len(right.data) THEN << >>
    ELSE LET k    == ColIndex(right, SCHOOL_ID)
             hits == {r \in 1..Len(left.data) :
                        left.data[r][ColIndex(left, SCHOOL_ID)] = right.data[j][k]}
         IN (IF hits = {} THEN << >>
             ELSE <<left.data[CHOOSE r \in hits : \A q \in hits : r <= q]
                     \o Without(right.data[j], k)>>)
            \o right_rows_from(left, right, j + 1)

merge_in_roll_order(left, right) ==
    Frame(left.columns \o Without(right.columns, ColIndex(right, SCHOOL_ID)),
          right_rows_from(left, right, 1))

\* Line 285: df_schools.merge(df_rolls, on='School_Id', how='left'): the rows
\* of the left frame in their order, each once per matching right row (in
\* the right frame's order), or once with NaN when nothing matches.
merge_left(left, right) ==
    Frame(left.columns \o Without(right.columns, ColIndex(right, SCHOOL_ID)),
          left_rows_from(left, right, 1))

InitMatch ==
    /\ \/ /\ rows \in {FetchedRows(ids) : ids \in SeqsUpTo(RegistryIdPool, MaxRows)}
          /\ df_rolls \in {RollTable(ids) : ids \in SeqsUpTo(RollIdPool, MaxRollRows)}
       \/ rows = ExampleRows /\ df_rolls = ExampleRolls
    /\ df = None /\ df_merged = None
    /\ schools_only_in_roll = {} /\ schools_only_in_api = {}
    /\ pcM = "frame"
    /\ ProjIdle /\ FetchIdle /\ RollIdle /\ ExportIdle

\* on_generate, lines 607-616.
BuildFrame ==
    /\ pcM = "frame"
    /\ LET d0 == DataFrame(rows)
           id == ColIndex(d0, "School_Id")
           d1 == Frame(d0.columns,
                       [r \in 1..Len(d0.data) |-> [d0.data[r] EXCEPT ![id] = coerce_or_keep(@)]])
       IN df' \in SortedFrames(d1)
    /\ pcM' = "match"
    /\ UNCHANGED <<rows, df_rolls, schools_only_in_roll, schools_only_in_api, df_merged>>
    /\ UNCHANGED <<projVars, fetchVars, rollVars, exportVars>>

\* match_schools_with_rolls, lines 268-295.
Match ==
    /\ pcM = "match"
    /\ IF ~can_astype_int(df) \/ ~can_astype_int(df_rolls)
       THEN /\ pcM' = "raised"
            /\ UNCHANGED <<schools_only_in_roll, schools_only_in_api, df_merged>>
       ELSE /\ schools_only_in_roll' = only_in(id_set(df_rolls), id_set(df))
            /\ schools_only_in_api'  = only_in(id_set(df), id_set(df_rolls))
            /\ df_merged' = merge_left(df, df_rolls)
            /\ pcM' = "done"
    /\ UNCHANGED <<rows, df, df_rolls>>
    /\ UNCHANGED <<projVars, fetchVars, rollVars, exportVars>>

NextMatch == BuildFrame \/ Match

SpecMatch == InitMatch /\ [][NextMatch]_vars

\* What the two tables say, independently of the function's locals.
Ids(d) == [r \in 1..Len(d.data) |-> d.data[r][ColIndex(d, SCHOOL_ID)]]
RegistryIds == {Ids(df)[r].w : r \in 1..Len(df.data)}
RollIdSet   == {Ids(df_rolls)[r].w : r \in 1..Len(df_rolls.data)}
RegistryPart(row) == SubSeq(row, 1, Len(df.columns))
RollPart(row)     == SubSeq(row, Len(df.columns) + 1, Len(row))
AllEmpty(cells)   == \A c \in 1..Len(cells) : cells[c] = NaN

\* C4: the join returns every registry row exactly once, so as many rows as
\* the registry has, whatever the roll table holds (duplicated identifiers
\* included), and no row for an identifier found in the roll table only.
C4_EveryRegistryRowOnce ==
    pcM = "done" =>
        /\ Len(df_merged.data) = Len(df.data)
        /\ \A r \in 1..Len(df.data) :
              Cardinality({i \in 1..Len(df_merged.data) :
                              RegistryPart(df_merged.data[i]) = df.data[r]}) = 1
        /\ \A i \in 1..Len(df_merged.data) :
              Ids(df_merged)[i].w \notin (RollIdSet \ RegistryIds)

\* C5: the mismatch report is (rollOnly = L \ R, registryOnly = R \ L) for the
\* registry identifiers R and the roll identifiers L; the two sets are
\* disjoint, and every identifier of registryOnly has its rows in the output,
\* with all roll columns empty.
C5_MismatchReport ==
    pcM = "done" =>
        /\ schools_only_in_roll = RollIdSet \ RegistryIds
        /\ schools_only_in_api  = RegistryIds \ RollIdSet
        /\ schools_only_in_roll \cap schools_only_in_api = {}
        /\ \A id \in schools_only_in_api :
              /\ \E i \in 1..Len(df_merged.data) : Ids(df_merged)[i].w = id
              /\ \A i \in 1..Len(df_merged.data) :
                    Ids(df_merged)[i].w = id => AllEmpty(RollPart(df_merged.data[i]))

C5_Witness ==
    /\ pcM = "done"
    /\ RegistryIds = {1, 2, 3} /\ RollIdSet = {2, 3, 4}
    /\ schools_only_in_roll = {4} /\ schools_only_in_api = {1}
    /\ Len(df_merged.data) = 3
    /\ AllEmpty(RollPart(df_merged.data[1]))

\* The frame with its rows in the order p.
Reordered(d, p) == Frame(d.columns, [r \in 1..Len(d.data) |-> d.data[p[r]]])

\* The registry row an output row comes from.
SourceRow(i) == CHOOSE r \in 1..Len(df.data) : RegistryPart(df_merged.data[i]) = df.data[r]

\* C6: the join is stable: the output rows follow the registry's row order
\* (every registry row is there, and a later output row never comes from an
\* earlier registry row), and the sequence of identifiers in the output is
\* the same for every order of the roll table's rows.
C6_JoinFollowsRegistryOrder ==
    pcM = "done" =>
        /\ \A i \in 1..Len(df_merged.data) :
              \E r \in 1..Len(df.data) : RegistryPart(df_merged.data[i]) = df.data[r]
        /\ \A r \in 1..Len(df.data) :
              \E i \in 1..Len(df_merged.data) : RegistryPart(df_merged.data[i]) = df.data[r]
        /\ \A i, j \in 1..Len(df_merged.data) : i < j => SourceRow(i) <= SourceRow(j)
        /\ \A p \in Orderings(Len(df_rolls.data)) :
              Ids(merge_left(df, Reordered(df_rolls, p))) = Ids(df_merged)

C6_Witness ==
    /\ pcM = "done"
    /\ Ids(df_rolls) = <<PyInt(3), PyInt(2)>>
    /\ Ids(df) = <<PyInt(1), PyInt(2), PyInt(2)>>
    /\ Ids(df_merged) = <<PyInt(1), PyInt(2), PyInt(2)>>
    /\ RollPart(df_merged.data[2]) = <<PyInt(20), PyInt(21)>>

----------------------------------------------------------------------------
\* on_generate, lines 628-640, with export_csv and export_excel_table: the
\* requested exports of the reconciled table, CSV first.

\* The character class of re.sub(r"[\\/:*?\"<>|]", "_", base_name).
IllegalChars == {"\\", "/", ":", "*", "?", "\"", "<", ">", "|"}

re_sub(name) == [i \in 1..Len(name) |-> IF name[i] \in IllegalChars THEN "_" ELSE name[i]]

DEFAULT_BASE == <<"s","c","h","o","o","l","s","_","f","i","l","t","e","r","e","d">>

\* The base name with the fallback taken whenever the name held an illegal
\* character.
base_of_falls_back_on_illegal(name) ==
    IF \E i \in 1..Len(name) : name[i] \in IllegalChars THEN DEFAULT_BASE
    ELSE IF strip(name) # << >> THEN strip(name) ELSE DEFAULT_BASE

\* Lines 301 and 320: re.sub(...).strip() or "schools_filtered"
base_of(name) ==
    LET stripped == strip(re_sub(name))
    IN IF stripped # << >> THEN stripped ELSE DEFAULT_BASE

\* os.path.join(out_dir, f"{base}.csv")
Path(base, ext) == [dir |-> "out_dir", file |-> base \o ext]
CSV_EXT  == <<".", "c", "s", "v">>
XLSX_EXT == <<".", "x", "l", "s", "x">>

\* FIELD_ALIASES.get(col, col)
alias(col) == IF col = "School_Id" THEN "MoEID" ELSE col
aliased(cols) == [i \in 1..Len(cols) |-> alias(cols[i])]

NameChars == {"a", ":", "/", " ", "_"}
ExampleName == <<"M","y",":","E","x","p","o","r","t","*","2","0","2","5">>
AllIllegalName == <<"\\", "/", ":", "*", "?", "\"", "<", ">", "|">>
BaseNames == SeqsUpTo(NameChars, MaxName) \cup {ExampleName, AllIllegalName}

\* The reconciled table handed to the exporters: the registry columns and the
\* band of the roll table, if any.
ExportTables == {Frame(FIELDS \o band, << >>) : band \in {<< >>, <<H_AY, H_BM>>}}

InitExport ==
    /\ base_name \in BaseNames
    /\ var_csv \in BOOLEAN /\ var_excel \in BOOLEAN
    /\ table \in ExportTables
    /\ csv_file = None /\ xlsx_file = None /\ outputs = << >>
    /\ errE = "none" /\ pcE = "csv"
    /\ ProjIdle /\ FetchIdle /\ RollIdle /\ MatchIdle

\* Lines 630-631 and export_csv: the file holds the table under the aliased
\* column names.
ExportCsv ==
    /\ pcE = "csv" /\ var_csv
    /\ LET csv_path == Path(base_of(base_name), CSV_EXT)
       IN /\ csv_file' = [path |-> csv_path, header |-> aliased(table.columns)]
          /\ outputs' = Append(outputs, csv_path)
    /\ pcE' = "excel"
    /\ UNCHANGED <<base_name, var_csv, var_excel, table, xlsx_file, errE>>
    /\ UNCHANGED <<projVars, fetchVars, rollVars, matchVars>>

\* os.makedirs or to_csv raises: on_generate's handler ends the run.
ExportCsvFails ==
    /\ pcE = "csv" /\ var_csv
    /\ pcE' = "raised" /\ errE' = "OSError"
    /\ UNCHANGED <<base_name, var_csv, var_excel, table, csv_file, xlsx_file, outputs>>
    /\ UNCHANGED <<projVars, fetchVars, rollVars, matchVars>>

SkipCsv ==
    /\ pcE = "csv" /\ ~var_csv
    /\ pcE' = "excel"
    /\ UNCHANGED <<base_name, var_csv, var_excel, table, csv_file, xlsx_file,
                   outputs, errE>>
    /\ UNCHANGED <<projVars, fetchVars, rollVars, matchVars>>

\* Lines 632-633 and export_excel_table: the sheet written by to_excel, and
\* the table added over columns 0..ncols-1 with one header per FIELDS entry.
ExportExcel ==
    /\ pcE = "excel" /\ var_excel
    /\ LET xlsx_path == Path(base_of(base_name), XLSX_EXT)
       IN /\ xlsx_file' = [path |-> xlsx_path,
                           header |-> aliased(table.columns),
                           table_first_col |-> 0,
                           table_last_col  |-> Len(table.columns) - 1,
                           table_columns   |-> aliased(FIELDS)]
          /\ outputs' = Append(outputs, xlsx_path)
    /\ pcE' = "done"
    /\ UNCHANGED <<base_name, var_csv, var_excel, table, csv_file, errE>>
    /\ UNCHANGED <<projVars, fetchVars, rollVars, matchVars>>

\* xlsxwriter is missing (ImportError) or the file cannot be written.
ExportExcelFails ==
    /\ pcE = "excel" /\ var_excel
    /\ pcE' = "raised" /\ errE' \in {"ImportError", "OSError"}
    /\ UNCHANGED <<base_name, var_csv, var_excel, table, csv_file, xlsx_file, outputs>>
    /\ UNCHANGED <<projVars, fetchVars, rollVars, matchVars>>

SkipExcel ==
    /\ pcE = "excel" /\ ~var_excel
    /\ pcE' = "done"
    /\ UNCHANGED <<base_name, var_csv, var_excel, table, csv_file, xlsx_file,
                   outputs, errE>>
    /\ UNCHANGED <<projVars, fetchVars, rollVars, matchVars>>

NextExport ==
    \/ ExportCsv \/ ExportCsvFails \/ SkipCsv
    \/ ExportExcel \/ ExportExcelFails \/ SkipExcel

SpecExport == InitExport /\ [][NextExport]_vars

\* The base names the two exporters used.
CsvBase  == SubSeq(csv_file.path.file, 1, Len(csv_file.path.file) - Len(CSV_EXT))
XlsxBase == SubSeq(xlsx_file.path.file, 1, Len(xlsx_file.path.file) - Len(XLSX_EXT))

Replaced(name) == [i \in 1..Len(name) |-> IF name[i] \in IllegalChars THEN "_" ELSE name[i]]
AllIllegal(name) == name # << >> /\ \A i \in 1..Len(name) : name[i] \in IllegalChars
AllBlank(name)   == \A i \in 1..Len(name) : name[i] \in Whitespace
Untrimmed(name)  == name # << >> /\ (name[1] \in Whitespace \/ name[Len(name)] \in Whitespace)

UsedBases ==
    (IF csv_file # None THEN {CsvBase} ELSE {}) \cup
    (IF xlsx_file # None THEN {XlsxBase} ELSE {})

\* C7 (as stated, read of names without leading or trailing whitespace): the
\* base name is the caller's name with each illegal character replaced by
\* '_', and a name of illegal characters only falls back to the default.
C7_Original ==
    ~Untrimmed(base_name) =>
        \A b \in UsedBases :
            b = IF AllIllegal(base_name) \/ base_name = << >> THEN DEFAULT_BASE
                ELSE Replaced(base_name)

\* C7 (amended): the base name is the caller's name with each illegal
\* character replaced by '_' and leading and trailing whitespace removed; the
\* default applies only when that leaves nothing (an empty or blank name); a
\* name of illegal characters only becomes as many underscores.
C7_SanitizedBaseName ==
    \A b \in UsedBases :
        /\ AllBlank(base_name) => b = DEFAULT_BASE
        /\ ~AllBlank(base_name) =>
              /\ IsTrimOf(b, Replaced(base_name))
              /\ ~Untrimmed(base_name) => b = Replaced(base_name)
        /\ AllIllegal(base_name) => b = [i \in 1..Len(base_name) |-> "_"]
        /\ \A i \in 1..Len(b) : b[i] \notin IllegalChars

C7_Witness ==
    /\ base_name = ExampleName
    /\ csv_file # None /\ xlsx_file # None
    /\ CsvBase = <<"M","y","_","E","x","p","o","r","t","_","2","0","2","5">>
    /\ XlsxBase = CsvBase

C7_AllIllegalWitness ==
    /\ base_name = AllIllegalName
    /\ csv_file # None
    /\ CsvBase = <<"_","_","_","_","_","_","_","_","_">>

\* The columns of the range handed to add_table: first_col..last_col.
TableWidth == xlsx_file.table_last_col - xlsx_file.table_first_col + 1

\* C11: the styled table of every exported workbook has one header
\* definition per column of its range, and the headers of the registry
\* columns are the FIELDS names in their fixed order, School_Id under its
\* alias.
C11_OneHeaderPerExportedColumn ==
    xlsx_file # None =>
        /\ Len(xlsx_file.table_columns) = TableWidth
        /\ TableWidth = Len(xlsx_file.header)
        /\ SubSeq(xlsx_file.table_columns, 1, Len(FIELDS)) = aliased(FIELDS)
        /\ SubSeq(xlsx_file.header, 1, Len(FIELDS)) = aliased(FIELDS)

\* C12: with both formats requested, whatever the CSV export does, the
\* spreadsheet export is attempted next, and whatever the spreadsheet export
\* does, the CSV file and its place among the outputs stay as they were.
C12_ExportsFailIndependently ==
    [][(var_csv /\ var_excel) =>
          /\ pcE = "csv" => pcE' = "excel"
          /\ pcE = "excel" =>
                /\ csv_file' = csv_file
                /\ SubSeq(outputs', 1, Len(outputs)) = outputs]_vars

\* C13: computing the mismatch report never raises, whatever identifiers the
\* registry table carries: every run that reaches match_schools_with_rolls
\* comes out of it with the report and the joined table.
C13_MismatchReportNeverRaises ==
    /\ pcM # "raised"
    /\ pcM = "done" => df_merged # None

-----------------------------------------------------------------------------
\* The fetch session under the assumption that every request returns and the
\* function keeps running: the loop is sequential code, so a step that can be
\* taken is taken.  Every step of the session changes pc or adds a request.
SpecFetchFair == SpecFetch /\ WF_<<pc, requests>>(NextFetch)

Terminated == pc \in {"done", "raised"}

\* One turn of the while loop has been taken and the loop goes on.
LoopGoesOn == pc = "loop" /\ pc' = "loop" /\ requests' # requests

\* A turn of the while loop received a successful page without records.
ZeroRecordPage ==
    /\ pc = "loop" /\ responses' # responses
    /\ succeeded(responses'[Len(responses')])
    /\ responses'[Len(responses')].records = << >>

\* C14 (as stated, its clauses on states): the session never requests the
\* same offset twice, and a session that has returned returns the records
\* received so far.
C14_Original ==
    /\ \A i, j \in 1..Len(requests) : i # j => requests[i] # requests[j]
    /\ pc = "done" => ret = List(projected)

\* C14 (amended): the session terminates when every request returns; a turn
\* of the loop that goes on has received at least one record and has raised
\* the fetched count, which was below the total; a zero-record page ends the
\* session at once with the records received so far; the offsets requested
\* increase strictly, except that offset 0 is requested a second time when
\* the first page came back empty under a positive reported total.
C14_TerminatesWithIncreasingOffsets ==
    /\ <>Terminated
    /\ [][LoopGoesOn => /\ fetched < total.w
                        /\ fetched' > fetched
                        /\ Len(projected') > Len(projected)]_vars
    /\ [][ZeroRecordPage => pc' = "done" /\ ret' = List(projected)]_vars
    /\ [](\A i, j \in 1..Len(requests) :
            i < j => \/ requests[i] < requests[j]
                     \/ /\ i = 1 /\ j = 2 /\ requests[j] = 0
                        /\ responses[1].records = << >>
                        /\ total.w > 0)

\* The loop received records, then a zero-record page below the total, and
\* the session returned what it had.
C14_Witness ==
    /\ pc = "done" /\ Len(responses) >= 3
    /\ Len(responses[2].records) > 0
    /\ responses[Len(responses)].records = << >>
    /\ fetched < total.w
    /\ ret = List(projected) /\ Len(ret.items) = fetched

\* The records received in the responses to the requests before request i.
ReceivedBefore(i) == SumSizes(SubSeq(responses, 1, i - 1))

\* C15: the offset of every request is the number of records received in
\* the earlier responses of the session (0 for the first), and the number of
\* accumulated normalized records is the fetched count at every point, which
\* is also the number of records received so far.
C15_OffsetsCountReceivedRecords ==
    /\ \A i \in 1..Len(requests) : requests[i] = ReceivedBefore(i)
    /\ Len(projected) = fetched
    /\ fetched = SumSizes(responses)
    /\ pc = "loop" => offset = fetched

\* A session of three requests whose second page was shorter than the limit.
C15_Witness ==
    /\ Len(requests) = 3 /\ Len(responses) >= 2
    /\ Len(responses[1].records) > 0
    /\ Len(responses[2].records) > 0
    /\ Len(responses[2].records) < limit_per_page
    /\ requests[2] = Len(responses[1].records)
    /\ requests[3] = requests[2] + Len(responses[2].records)

\* The total the first response reports: total, or else records_total.
Reported == IF first.total # None THEN first.total ELSE first.records_total

\* C16: without a reported total the session makes one request and returns
\* the first page's records; with a reported total, 0 included, every later
\* request is made while the records received are fewer than that total.
C16_ReportedTotalBoundsLoop ==
    first # None =>
        /\ Reported = None =>
              /\ Len(requests) = 1
              /\ pc = "done" => ret.items = InPageOrder(<<first>>)
        /\ Reported # None =>
              \A i \in 2..Len(requests) : ReceivedBefore(i) < Reported.w

====
